---- MODULE Spec2Model ----
(***************************************************************************)
(* USART serial driver of stm32f1xx-hal (src/serial.rs): construction and  *)
(* release of the Serial handle, the interrupt enables, the non-blocking   *)
(* read / write / flush protocol on the status and data registers, the     *)
(* split into Rx and Tx halves, and the DMA promotion, transfer set-up and *)
(* release of each half.                                                   *)
(***************************************************************************)
EXTENDS Naturals, Integers, Sequences, FiniteSets, TLC

\* Largest data byte of the model: bytes are 0..MaxByte (u8 in the source).
MaxByte == 1
\* Longest DMA buffer of the model, in elements.
MaxLen == 2
\* Largest bus clock and largest baud rate of the model (u32 in the source).
MaxClock == 40
MaxBaud == 3
\* assert!(brr >= 16, "impossible baud rate")
MinDivisor == 16
\* Longest string given to write_str, in bytes.
MaxStr == 2

Bytes == 0..MaxByte
BufLens == 1..MaxLen
Clocks == 0..MaxClock
Bauds == 0..MaxBaud

VARIABLES
    usart,      \* the USART register block: sr, rdr, tdr, brr, cr1, cr2, cr3
    rxch,       \* the DMA channel of the receive direction
    txch,       \* the DMA channel of the transmit direction
    rxOwner,    \* which handle currently owns the receive direction
    txOwner,    \* which handle currently owns the transmit direction
    trace,      \* hardware accesses of the last operation, in program order
    last,       \* the last operation, what it returned and the status it found
    prev,       \* the operation before it (when no hardware event came between)
    sent,       \* "idle", or since the last accepted write: "written", then
                \* "flushed" once a flush has reported Ready
    held,       \* the handles, channels and buffers the caller can use
    engine,     \* the half of a circular buffer the DMA engine starts on
    pend,       \* a read-modify-write of CR1 that has read and not yet written
    want,       \* the value last set for each interrupt-enable bit
    wstr        \* the write_str call in progress or last returned

vars ==
    <<usart, rxch, txch, rxOwner, txOwner, trace, last, prev, sent, held,
      engine, pend, want, wstr>>

\* What byte-level and DMA set-up calls leave alone.
line == <<engine, pend, want, wstr>>

----------------------------------------------------------------------------
(* The register block.  sr is the set of status flags that are set.        *)

ErrFlags == {"pe", "fe", "ne", "ore"}

\* A device under access: registers u, the status flags latched by the last
\* status read (seen), and the log of accesses.
Access(u) == [u |-> u, seen |-> {}, log |-> <<>>]

\* self.sr.read() / ptr::read_volatile(&self.sr): returns m.u.sr and arms the
\* clear sequence for the flags that were set.
sr_read(m) == [m EXCEPT !.seen = m.u.sr, !.log = Append(@, "sr.read")]

\* ptr::read_volatile(&self.dr): returns m.u.rdr; the device drops data-ready
\* and the error flags that a preceding status read has seen.
dr_read(m) ==
    [m EXCEPT !.u.sr = (@ \ {"rxne"}) \ (m.seen \cap ErrFlags),
              !.seen = {},
              !.log = Append(@, "dr.read")]

\* ptr::write_volatile(&self.dr, byte): loads the transmit data register; the
\* device drops transmit-empty, and transmission-complete if a preceding
\* status read has seen it.
dr_write(m, byte) ==
    [m EXCEPT !.u.tdr = byte,
              !.u.sr = (@ \ {"txe"}) \ (m.seen \cap {"tc"}),
              !.seen = {},
              !.log = Append(@, "dr.write")]

----------------------------------------------------------------------------
(* Results of the non-blocking operations (nb::Result).                    *)

Ok(data) == [kind |-> "Ok", err |-> "None", data |-> data]
Err(e) == [kind |-> "Err", err |-> e, data |-> <<>>]
WouldBlock == [kind |-> "WouldBlock", err |-> "None", data |-> <<>>]

Outcome(m, res) == [u |-> m.u, log |-> m.log, res |-> res]

----------------------------------------------------------------------------
(* trait UsartReadWrite                                                    *)

\* A variant of read_err that tests framing before parity.
read_err_framing_first(sr) ==
    IF "fe" \in sr THEN "Framing"
    ELSE IF "pe" \in sr THEN "Parity"
    ELSE IF "ne" \in sr THEN "Noise"
    ELSE IF "ore" \in sr THEN "Overrun"
    ELSE "None"

\* The error decoded from a status value: the if / else-if chain of read().
read_err(sr) ==
    IF "pe" \in sr THEN "Parity"
    ELSE IF "fe" \in sr THEN "Framing"
    ELSE IF "ne" \in sr THEN "Noise"
    ELSE IF "ore" \in sr THEN "Overrun"
    ELSE "None"

\* Variants of read(): the error branch without the second status read; the
\* error branch without the data read; a data read on every path; a Ready
\* branch that returns the byte without reading the data register.
UsartReadWrite_read_one_sr(u) ==
    LET m0 == Access(u)
        sr == m0.u.sr
        m1 == sr_read(m0)
        err == read_err(sr)
    IN  IF err # "None"
        THEN Outcome(dr_read(m1), Err(err))
        ELSE IF "rxne" \in sr
             THEN Outcome(dr_read(m1), Ok(<<m1.u.rdr>>))
             ELSE Outcome(m1, WouldBlock)

UsartReadWrite_read_no_clear(u) ==
    LET m0 == Access(u)
        sr == m0.u.sr
        m1 == sr_read(m0)
        err == read_err(sr)
    IN  IF err # "None"
        THEN Outcome(m1, Err(err))
        ELSE IF "rxne" \in sr
             THEN Outcome(dr_read(m1), Ok(<<m1.u.rdr>>))
             ELSE Outcome(m1, WouldBlock)

UsartReadWrite_read_no_dr(u) ==
    LET m0 == Access(u)
        sr == m0.u.sr
        m1 == sr_read(m0)
        err == read_err(sr)
    IN  IF err # "None"
        THEN Outcome(sr_read(m1), Err(err))
        ELSE IF "rxne" \in sr
             THEN Outcome(dr_read(m1), Ok(<<m1.u.rdr>>))
             ELSE Outcome(m1, WouldBlock)

UsartReadWrite_read_always_dr(u) ==
    LET m0 == Access(u)
        sr == m0.u.sr
        m1 == sr_read(m0)
        err == read_err(sr)
    IN  IF err # "None"
        THEN Outcome(dr_read(sr_read(m1)), Err(err))
        ELSE IF "rxne" \in sr
             THEN Outcome(dr_read(m1), Ok(<<m1.u.rdr>>))
             ELSE Outcome(dr_read(m1), WouldBlock)

UsartReadWrite_read_peek(u) ==
    LET m0 == Access(u)
        sr == m0.u.sr
        m1 == sr_read(m0)
        err == read_err(sr)
    IN  IF err # "None"
        THEN Outcome(dr_read(sr_read(m1)), Err(err))
        ELSE IF "rxne" \in sr
             THEN Outcome(m1, Ok(<<m1.u.rdr>>))
             ELSE Outcome(m1, WouldBlock)

UsartReadWrite_read(u) ==
    LET m0 == Access(u)
        sr == m0.u.sr
        m1 == sr_read(m0)
        err == read_err(sr)
    IN  IF err # "None"
        THEN Outcome(dr_read(sr_read(m1)), Err(err))
        ELSE IF "rxne" \in sr
             THEN Outcome(dr_read(m1), Ok(<<m1.u.rdr>>))
             ELSE Outcome(m1, WouldBlock)

\* A variant of write() that waits for transmission-complete.
UsartReadWrite_write_on_tc(u, byte) ==
    LET m0 == Access(u)
        sr == m0.u.sr
        m1 == sr_read(m0)
    IN  IF "tc" \in sr
        THEN Outcome(dr_write(m1, byte), Ok(<<>>))
        ELSE Outcome(m1, WouldBlock)

UsartReadWrite_write(u, byte) ==
    LET m0 == Access(u)
        sr == m0.u.sr
        m1 == sr_read(m0)
    IN  IF "txe" \in sr
        THEN Outcome(dr_write(m1, byte), Ok(<<>>))
        ELSE Outcome(m1, WouldBlock)

\* A variant of flush() that tests transmit-empty.
UsartReadWrite_flush_on_txe(u) ==
    LET m0 == Access(u)
        sr == m0.u.sr
        m1 == sr_read(m0)
    IN  IF "txe" \in sr
        THEN Outcome(m1, Ok(<<>>))
        ELSE Outcome(m1, WouldBlock)

UsartReadWrite_flush(u) ==
    LET m0 == Access(u)
        sr == m0.u.sr
        m1 == sr_read(m0)
    IN  IF "tc" \in sr
        THEN Outcome(m1, Ok(<<>>))
        ELSE Outcome(m1, WouldBlock)

----------------------------------------------------------------------------
(* State after construction (Serial::usartN with the default parity).      *)

\* A DMA channel out of reset.
ChannelReset ==
    [par |-> "none", pinc |-> FALSE, mar |-> "none", minc |-> FALSE, ndt |-> 0,
     mem2mem |-> FALSE, pl |-> "low", msize |-> "bits8", psize |-> "bits8",
     circ |-> FALSE, dir |-> FALSE, en |-> FALSE]

\* A DMA channel the caller has used for something else before handing it in.
ChannelUsed ==
    [par |-> "other", pinc |-> TRUE, mar |-> "other", minc |-> FALSE, ndt |-> 0,
     mem2mem |-> TRUE, pl |-> "high", msize |-> "bits16", psize |-> "bits32",
     circ |-> TRUE, dir |-> TRUE, en |-> FALSE]

\* The USART registers out of reset: transmit-empty and transmission-complete
\* set, everything else zero.
UsartReset ==
    [sr |-> {"txe", "tc"}, rdr |-> 0, tdr |-> 0, brr |-> 0, cr1 |-> {}, cr2 |-> 0,
     cr3 |-> {}]

\* The USART registers as a caller may have left them before handing the
\* peripheral in.
UsartUsed ==
    [sr |-> {"rxne", "ore"}, rdr |-> MaxByte, tdr |-> MaxByte, brr |-> 1,
     cr1 |-> {"ue", "te", "m", "pce", "ps", "rxneie", "idleie"}, cr2 |-> 3,
     cr3 |-> {"dmar", "dmat"}]

\* The registers after construction with the default parity and stop bits.
UsartBuilt == [UsartReset EXCEPT !.brr = MinDivisor, !.cr1 = {"ue", "re", "te"}]

\* The interrupt-enable bits of CR1.
IeBits == {"rxneie", "txeie", "idleie"}

\* No circular transfer in progress.
EngineIdle == [writing |-> 0, htif |-> FALSE, tcif |-> FALSE]

\* A circular transfer just started: the engine fills the first half.
EngineStarted == [writing |-> 1, htif |-> FALSE, tcif |-> FALSE]

\* No write_str call made yet.
StrIdle == [state |-> "idle", s |-> <<>>, pos |-> 1, out |-> <<>>, res |-> "none"]

\* No driver call on record.
NoOp == [op |-> "none", kind |-> "none", err |-> "None", data |-> <<>>]
NoCall ==
    [op |-> "none", arg |-> <<>>, kind |-> "none", err |-> "None", data |-> <<>>,
     sr |-> {}]

Init ==
    /\ usart = UsartBuilt
    /\ rxch = ChannelReset
    /\ txch = ChannelReset
    /\ rxOwner = "Serial"
    /\ txOwner = "Serial"
    /\ trace = <<>>
    /\ last = NoCall
    /\ prev = NoOp
    /\ sent = "idle"
    /\ held = {"Serial", "rxch", "txch", "rxbuf", "txbuf"}
    /\ engine = EngineIdle
    /\ pend = <<>>
    /\ want = [b \in IeBits |-> FALSE]
    /\ wstr = StrIdle

\* Bookkeeping of one driver call: its accesses, its result and the status
\* register it found.
Called(op, arg, log, res) ==
    /\ trace' = log
    /\ last' = [op |-> op, arg |-> arg, kind |-> res.kind, err |-> res.err,
                data |-> res.data, sr |-> usart.sr]
    /\ prev' = [op |-> last.op, kind |-> last.kind, err |-> last.err,
                data |-> last.data]

Done == [kind |-> "Ok", err |-> "None", data |-> <<>>]

----------------------------------------------------------------------------
(* The device acting on its own between driver calls.                      *)

Event ==
    /\ trace' = <<>>
    /\ last' = NoCall
    /\ prev' = NoOp
    /\ UNCHANGED <<rxch, txch, rxOwner, txOwner, sent, held, line>>

\* A frame arrives: its byte becomes readable, or, if the previous byte was
\* not read yet, the frame is lost and overrun is flagged.
HwReceive ==
    /\ \E b \in Bytes :
         usart' = IF "rxne" \in usart.sr
                  THEN [usart EXCEPT !.sr = @ \cup {"ore"}]
                  ELSE [usart EXCEPT !.rdr = b, !.sr = @ \cup {"rxne"}]
    /\ usart' # usart
    /\ Event

\* A line fault is latched in the status register.
HwFault ==
    /\ \E f \in ErrFlags :
         /\ f \notin usart.sr
         /\ usart' = [usart EXCEPT !.sr = @ \cup {f}]
    /\ Event

\* The transmit data register is moved to the shift register.
HwTxEmpty ==
    /\ "txe" \notin usart.sr
    /\ usart' = [usart EXCEPT !.sr = @ \cup {"txe"}]
    /\ Event

\* The last frame has left the shift register.
HwTxComplete ==
    /\ "txe" \in usart.sr
    /\ "tc" \notin usart.sr
    /\ usart' = [usart EXCEPT !.sr = @ \cup {"tc"}]
    /\ Event

----------------------------------------------------------------------------
(* Ownership.  A method that takes self, a channel or a buffer by value    *)
(* takes it away from the caller; what it returns is what the caller can   *)
(* use afterwards.                                                         *)

RxHandles == {"Serial", "Rx", "RxDma", "RxTransfer", "CircBuffer"}
TxHandles == {"Serial", "Tx", "TxDma", "TxTransfer"}

\* Serial::split(self) -> (Tx, Rx)
Serial_split_moves(h) == (h \ {"Serial"}) \cup {"Tx", "Rx"}

\* Rx::with_dma(self, channel) -> RxDma; Tx::with_dma(self, channel) -> TxDma
Rx_with_dma_moves(h) == (h \ {"Rx", "rxch"}) \cup {"RxDma"}
Tx_with_dma_moves(h) == (h \ {"Tx", "txch"}) \cup {"TxDma"}

\* RxDma::release(self) -> (Rx, channel); TxDma::release(self) -> (Tx, channel)
RxDma_release_moves(h) == (h \ {"RxDma"}) \cup {"Rx", "rxch"}
TxDma_release_moves(h) == (h \ {"TxDma"}) \cup {"Tx", "txch"}

\* A variant of ReadDma::read that borrows the handle (&mut self) and so
\* leaves it with the caller.
ReadDma_read_borrows(h) == (h \ {"rxbuf"}) \cup {"RxTransfer"}

\* ReadDma::read(self, buffer) -> Transfer
ReadDma_read_moves(h) == (h \ {"RxDma", "rxbuf"}) \cup {"RxTransfer"}

\* CircReadDma::circ_read(self, buffer) -> CircBuffer
CircReadDma_circ_read_moves(h) == (h \ {"RxDma", "rxbuf"}) \cup {"CircBuffer"}

\* WriteDma::write(self, buffer) -> Transfer.  B: StaticReadBuffer admits an
\* exclusive buffer (&'static mut [u8; N]), which is moved into the transfer,
\* and a shared one (&'static [u8; N], Copy), which the caller can still read.
WriteDma_write_moves(h, shared) ==
    (h \ ({"TxDma"} \cup (IF shared THEN {} ELSE {"txbuf"}))) \cup {"TxTransfer"}

\* Transfer::wait(self) / CircBuffer::stop(self) -> (buffer, payload)
RxTransfer_end_moves(h) == (h \ {"RxTransfer", "CircBuffer"}) \cup {"RxDma", "rxbuf"}
TxTransfer_end_moves(h) == (h \ {"TxTransfer"}) \cup {"TxDma", "txbuf"}

----------------------------------------------------------------------------
(* Driver calls: byte-level polling.                                       *)

\* Read<u8> for Serial and for Rx.
Read ==
    /\ rxOwner \in {"Serial", "Rx"}
    /\ LET r == UsartReadWrite_read(usart)
       IN  /\ usart' = r.u
           /\ Called("read", <<>>, r.log, r.res)
    /\ UNCHANGED <<rxch, txch, rxOwner, txOwner, sent, held, line>>

\* Write<u8>::write for Serial and for Tx.
Write ==
    /\ txOwner \in {"Serial", "Tx"}
    /\ \E byte \in Bytes :
         LET r == UsartReadWrite_write(usart, byte)
         IN  /\ usart' = r.u
             /\ Called("write", <<byte>>, r.log, r.res)
             /\ sent' = IF r.res.kind = "Ok" THEN "written" ELSE sent
    /\ UNCHANGED <<rxch, txch, rxOwner, txOwner, held, line>>

\* Write<u8>::flush for Serial and for Tx.
Flush ==
    /\ txOwner \in {"Serial", "Tx"}
    /\ LET r == UsartReadWrite_flush(usart)
       IN  /\ usart' = r.u
           /\ Called("flush", <<>>, r.log, r.res)
           /\ sent' = IF r.res.kind = "Ok" /\ sent = "written" THEN "flushed" ELSE sent
    /\ UNCHANGED <<rxch, txch, rxOwner, txOwner, held, line>>

\* Serial::split
Split ==
    /\ rxOwner = "Serial"
    /\ txOwner = "Serial"
    /\ rxOwner' = "Rx"
    /\ txOwner' = "Tx"
    /\ "Serial" \in held
    /\ held' = Serial_split_moves(held)
    /\ Called("split", <<>>, <<>>, Done)
    /\ UNCHANGED <<usart, rxch, txch, sent, line>>

----------------------------------------------------------------------------
(* Construction and the calls on the control registers.                    *)

Parities == {"ParityNone", "ParityEven", "ParityOdd"}
StopBits == {"STOP1", "STOP0P5", "STOP2", "STOP1P5"}
Events == {"Rxne", "Txe", "Idle"}

\* Config and Clocks as Serial::usartN receives them.
Configs ==
    [clock : Clocks, baud : Bauds, parity : Parities, stopbits : StopBits]

Panic(msg) == [kind |-> "Panic", err |-> msg, data |-> <<>>]

\* USART::enable(rcc), USART::reset(rcc) and the remap closure.
rcc_enable(m) == [m EXCEPT !.log = Append(@, "rcc.enable")]
rcc_reset(m) == [m EXCEPT !.u = UsartReset, !.seen = {}, !.log = Append(@, "rcc.reset")]
remap(m) == [m EXCEPT !.log = Append(@, "remap")]

\* self.usart.brr.write(|w| w.bits(brr))
brr_write(m, brr) == [m EXCEPT !.u.brr = brr, !.log = Append(@, "brr.write")]

\* The fields of CR1 that the closure of a modify call writes, as logged.
Cr1Fields(bits) ==
    IF bits \subseteq {"m", "ps", "pce"} THEN "cr1.modify(m,ps,pce)"
    ELSE IF bits \subseteq {"ue", "re", "te"} THEN "cr1.modify(ue,re,te)"
    ELSE "cr1.modify(ie)"

\* cr1.modify completing with the value it read earlier (old): the bits in
\* clear and set are replaced, every other bit is written back as read.
cr1_modify_from(old, m, clear, set) ==
    [m EXCEPT !.u.cr1 = (old \ clear) \cup set,
              !.log = Append(@, Cr1Fields(clear \cup set))]

\* self.usart.cr1.modify(|_, w| ...), uninterrupted.
cr1_modify(m, clear, set) == cr1_modify_from(m.u.cr1, m, clear, set)

\* self.usart.cr2.modify(|_r, w| w.stop().bits(stop_bits))
cr2_modify(m, stop_bits) ==
    [m EXCEPT !.u.cr2 = stop_bits, !.log = Append(@, "cr2.modify")]

\* USART::get_frequency(&clocks).0 / config.baudrate.0 (u32 division)
Divisor(clock, baud) == clock \div baud

\* A variant that treats even parity like odd parity.
ParityPlan_even_as_odd(parity) ==
    CASE parity = "ParityNone" -> {}
      [] parity = "ParityEven" -> {"m", "pce", "ps"}
      [] parity = "ParityOdd" -> {"m", "pce", "ps"}

\* (word_length, parity_control_enable, parity) as the set of bits to set.
ParityPlan(parity) ==
    CASE parity = "ParityNone" -> {}
      [] parity = "ParityEven" -> {"m", "pce"}
      [] parity = "ParityOdd" -> {"m", "pce", "ps"}

StopCode(stopbits) ==
    CASE stopbits = "STOP1" -> 0
      [] stopbits = "STOP0P5" -> 1
      [] stopbits = "STOP2" -> 2
      [] stopbits = "STOP1P5" -> 3

\* A variant that switches the USART on before it is configured.
Serial_configure_enable_first(m, brr, cfg) ==
    LET m1 == cr1_modify(m, {}, {"ue", "re", "te"})
        m2 == brr_write(m1, brr)
        m3 == cr1_modify(m2, {"m", "ps", "pce"}, ParityPlan(cfg.parity))
    IN  cr2_modify(m3, StopCode(cfg.stopbits))

\* Serial::init from the divisor write on.
Serial_configure(m, brr, cfg) ==
    LET m1 == brr_write(m, brr)
        m2 == cr1_modify(m1, {"m", "ps", "pce"}, ParityPlan(cfg.parity))
        m3 == cr2_modify(m2, StopCode(cfg.stopbits))
    IN  cr1_modify(m3, {}, {"ue", "re", "te"})

\* A variant that checks the divisor only after writing it.
Serial_init_late_assert(u, cfg) ==
    LET m == remap(rcc_reset(rcc_enable(Access(u))))
    IN  IF cfg.baud = 0
        THEN [u |-> m.u, log |-> m.log, res |-> Panic("attempt to divide by zero")]
        ELSE LET brr == Divisor(cfg.clock, cfg.baud)
                 w == brr_write(m, brr)
             IN  IF brr >= MinDivisor
                 THEN LET c == Serial_configure(m, brr, cfg)
                      IN  [u |-> c.u, log |-> c.log, res |-> Done]
                 ELSE [u |-> w.u, log |-> w.log, res |-> Panic("impossible baud rate")]

\* A variant that raises a too small divisor to the smallest legal one.
Serial_init_clamped(u, cfg) ==
    LET m == remap(rcc_reset(rcc_enable(Access(u))))
    IN  IF cfg.baud = 0
        THEN [u |-> m.u, log |-> m.log, res |-> Panic("attempt to divide by zero")]
        ELSE LET brr == Divisor(cfg.clock, cfg.baud)
                 c == Serial_configure(m, IF brr >= MinDivisor THEN brr ELSE MinDivisor, cfg)
             IN  [u |-> c.u, log |-> c.log, res |-> Done]

\* Serial::init
Serial_init(u, cfg) ==
    LET m == remap(rcc_reset(rcc_enable(Access(u))))
    IN  IF cfg.baud = 0
        THEN [u |-> m.u, log |-> m.log, res |-> Panic("attempt to divide by zero")]
        ELSE LET brr == Divisor(cfg.clock, cfg.baud)
             IN  IF brr >= MinDivisor
                 THEN LET c == Serial_configure(m, brr, cfg)
                      IN  [u |-> c.u, log |-> c.log, res |-> Done]
                 ELSE [u |-> m.u, log |-> m.log, res |-> Panic("impossible baud rate")]

\* Serial::usartN(usart, pins, mapr, config, clocks) -> Serial
Serial_usart_moves(h, built) ==
    (h \ {"USART", "PINS"}) \cup (IF built THEN {"Serial"} ELSE {})

\* Serial::usartN: takes the peripheral and the pins; a panic leaves the
\* caller with neither them nor a handle.
Construct ==
    /\ {"USART", "PINS"} \subseteq held
    /\ \E cfg \in Configs :
         LET r == Serial_init(usart, cfg)
             built == r.res.kind = "Ok"
         IN  /\ usart' = r.u
             /\ Called("usart", cfg, r.log, r.res)
             /\ held' = Serial_usart_moves(held, built)
             /\ rxOwner' = IF built THEN "Serial" ELSE "Panicked"
             /\ txOwner' = IF built THEN "Serial" ELSE "Panicked"
             /\ want' = [b \in IeBits |-> FALSE]
    /\ UNCHANGED <<rxch, txch, sent, engine, pend, wstr>>

\* The interrupt-enable bit of an event.
IeBit(event) ==
    CASE event = "Rxne" -> "rxneie"
      [] event = "Txe" -> "txeie"
      [] event = "Idle" -> "idleie"

\* A variant that stores the whole register (write instead of modify).
Serial_listen_write(u, event) ==
    LET m == Access(u)
    IN  [m EXCEPT !.u.cr1 = {IeBit(event)}, !.log = Append(@, "cr1.write")]

\* Serial::listen, Rx::listen (Rxne), Tx::listen (Txe)
Serial_listen(u, event) == cr1_modify(Access(u), {}, {IeBit(event)})

\* Serial::unlisten, Rx::unlisten (Rxne), Tx::unlisten (Txe)
Serial_unlisten(u, event) == cr1_modify(Access(u), {IeBit(event)}, {})

\* One listen (on = TRUE) or unlisten call for an event, start to end.
Listening(name, event, on) ==
    /\ pend = <<>>
    /\ LET m == IF on THEN Serial_listen(usart, event) ELSE Serial_unlisten(usart, event)
       IN  /\ usart' = m.u
           /\ Called(name, <<event>>, m.log, Done)
    /\ want' = [want EXCEPT ![IeBit(event)] = on]
    /\ UNCHANGED <<rxch, txch, rxOwner, txOwner, sent, held, engine, pend, wstr>>

SerialListen == "Serial" \in held /\ \E e \in Events : Listening("listen", e, TRUE)
SerialUnlisten == "Serial" \in held /\ \E e \in Events : Listening("unlisten", e, FALSE)
RxListen == "Rx" \in held /\ Listening("rx.listen", "Rxne", TRUE)
RxUnlisten == "Rx" \in held /\ Listening("rx.unlisten", "Rxne", FALSE)
TxListen == "Tx" \in held /\ Listening("tx.listen", "Txe", TRUE)
TxUnlisten == "Tx" \in held /\ Listening("tx.unlisten", "Txe", FALSE)

\* A variant of release that switches the USART off first.
Serial_release_disables(u) == cr1_modify(Access(u), {"ue", "re", "te"}, {})

\* Serial::release: (self.usart, self.pins), no register is touched.
Serial_release(u) == Access(u)

Serial_release_moves(h) == (h \ {"Serial"}) \cup {"USART", "PINS"}

\* A listen or unlisten call on one half, in the main program, as the two
\* bus accesses of its cr1.modify: the read ...
ModifyBegin ==
    /\ pend = <<>>
    /\ \E half \in {"Rx", "Tx"}, on \in BOOLEAN :
         /\ half \in held
         /\ pend' = <<[half |-> half, on |-> on, old |-> usart.cr1]>>
    /\ trace' = <<"cr1.read">>
    /\ last' = NoCall
    /\ prev' = NoOp
    /\ UNCHANGED <<usart, rxch, txch, rxOwner, txOwner, sent, held, engine, want, wstr>>

\* ... an interrupt handler that runs in between and calls listen or
\* unlisten on the other half, start to end ...
Interrupt ==
    /\ pend # <<>>
    /\ \E on \in BOOLEAN :
         LET other == IF pend[1].half = "Rx" THEN "Tx" ELSE "Rx"
             event == IF other = "Rx" THEN "Rxne" ELSE "Txe"
             m == IF on THEN Serial_listen(usart, event) ELSE Serial_unlisten(usart, event)
         IN  /\ other \in held
             /\ usart' = m.u
             /\ Called("isr.listen", <<event>>, m.log, Done)
             /\ want' = [want EXCEPT ![IeBit(event)] = on]
    /\ UNCHANGED <<rxch, txch, rxOwner, txOwner, sent, held, engine, pend, wstr>>

\* ... and the write, of the value computed from what the read returned.
ModifyEnd ==
    /\ pend # <<>>
    /\ LET p == pend[1]
           bit == IF p.half = "Rx" THEN "rxneie" ELSE "txeie"
           m == IF p.on
                THEN cr1_modify_from(p.old, Access(usart), {}, {bit})
                ELSE cr1_modify_from(p.old, Access(usart), {bit}, {})
       IN  /\ usart' = m.u
           /\ Called("main.listen", <<bit>>, m.log, Done)
           /\ want' = [want EXCEPT ![bit] = p.on]
    /\ pend' = <<>>
    /\ UNCHANGED <<rxch, txch, rxOwner, txOwner, sent, held, engine, wstr>>

SerialRelease ==
    /\ "Serial" \in held
    /\ LET m == Serial_release(usart)
       IN  /\ usart' = m.u
           /\ Called("release", <<>>, m.log, Done)
    /\ held' = Serial_release_moves(held)
    /\ rxOwner' = "Released"
    /\ txOwner' = "Released"
    /\ UNCHANGED <<rxch, txch, sent, line>>

----------------------------------------------------------------------------
(* core::fmt::Write for Tx: write_str.                                     *)

\* The byte strings write_str is called with (s.as_bytes()).
Strings == UNION {[1..n -> Bytes] : n \in 0..MaxStr}

\* A variant that gives up with an error when the byte is not accepted at
\* once (self.write(*c) without nb::block!).
Tx_write_str_poll_no_retry(u, w) ==
    LET r == UsartReadWrite_write(u, w.s[w.pos])
        sent_now == IF "dr.write" \in {r.log[i] : i \in 1..Len(r.log)}
                    THEN <<r.u.tdr>> ELSE <<>>
    IN  [u |-> r.u, log |-> r.log, res |-> r.res,
         w |-> IF r.res.kind = "Ok"
               THEN [w EXCEPT !.pos = @ + 1, !.out = @ \o sent_now,
                              !.state = IF w.pos = Len(w.s) THEN "returned" ELSE @,
                              !.res = IF w.pos = Len(w.s) THEN "Ok" ELSE @]
               ELSE [w EXCEPT !.out = @ \o sent_now, !.state = "returned", !.res = "Err"]]

\* One round of nb::block!(self.write(*c)) for the byte at w.pos: Ok moves on
\* to the next byte, or returns Ok(()) after the last one; WouldBlock tries
\* the same byte again.  What reached the data register is recorded in out.
Tx_write_str_poll(u, w) ==
    LET r == UsartReadWrite_write(u, w.s[w.pos])
        sent_now == IF "dr.write" \in {r.log[i] : i \in 1..Len(r.log)}
                    THEN <<r.u.tdr>> ELSE <<>>
    IN  [u |-> r.u, log |-> r.log, res |-> r.res,
         w |-> IF r.res.kind = "Ok"
               THEN [w EXCEPT !.pos = @ + 1, !.out = @ \o sent_now,
                              !.state = IF w.pos = Len(w.s) THEN "returned" ELSE @,
                              !.res = IF w.pos = Len(w.s) THEN "Ok" ELSE @]
               ELSE [w EXCEPT !.out = @ \o sent_now]]

\* write_str is entered; on an empty string try_for_each returns Ok at once.
WriteStrCall ==
    /\ "Tx" \in held
    /\ txOwner = "Tx"
    /\ wstr.state # "running"
    /\ \E s \in Strings :
         wstr' = IF s = <<>>
                 THEN [state |-> "returned", s |-> s, pos |-> 1, out |-> <<>>, res |-> "Ok"]
                 ELSE [state |-> "running", s |-> s, pos |-> 1, out |-> <<>>, res |-> "none"]
    /\ trace' = <<>>
    /\ last' = NoCall
    /\ prev' = NoOp
    /\ UNCHANGED <<usart, rxch, txch, rxOwner, txOwner, sent, held, engine, pend, want>>

\* write_str polls the device once.
WriteStrPoll ==
    /\ wstr.state = "running"
    /\ LET r == Tx_write_str_poll(usart, wstr)
       IN  /\ usart' = r.u
           /\ wstr' = r.w
           /\ Called("write", <<wstr.s[wstr.pos]>>, r.log, r.res)
           /\ sent' = IF r.res.kind = "Ok" THEN "written" ELSE sent
    /\ UNCHANGED <<rxch, txch, rxOwner, txOwner, held, engine, pend, want>>

----------------------------------------------------------------------------
(* DMA channel primitives (crate::dma channel methods).                    *)

Program(ch) == [ch |-> ch, log |-> <<>>]

set_peripheral_address(c, address, inc) ==
    [c EXCEPT !.ch.par = address, !.ch.pinc = inc,
              !.log = Append(@, "set_peripheral_address")]

set_memory_address(c, address, inc) ==
    [c EXCEPT !.ch.mar = address, !.ch.minc = inc,
              !.log = Append(@, "set_memory_address")]

set_transfer_length(c, len) ==
    [c EXCEPT !.ch.ndt = len, !.log = Append(@, "set_transfer_length")]

compiler_fence(c) == [c EXCEPT !.log = Append(@, "fence")]

\* channel.ch().cr.modify: the six fields the driver sets; the others stay.
cr_modify(c, circ, dir) ==
    [c EXCEPT !.ch.mem2mem = FALSE, !.ch.pl = "medium",
              !.ch.msize = "bits8", !.ch.psize = "bits8",
              !.ch.circ = circ, !.ch.dir = dir,
              !.log = Append(@, "cr.modify")]

\* TransferPayload::start / stop of RxDma and TxDma.
start(c) == [c EXCEPT !.ch.en = TRUE, !.log = Append(@, "start")]
stop(c) == [c EXCEPT !.ch.en = FALSE, !.log = Append(@, "stop")]

----------------------------------------------------------------------------
(* CR3 accesses.  write() builds the value from the register's reset value *)
(* (no bit set) and stores the whole register.                             *)

Cr3Reset == {}

cr3_write_set(bit) == Cr3Reset \cup {bit}
cr3_write_clear(bit) == Cr3Reset \ {bit}

\* Rx::with_dma, Tx::with_dma: the new CR3 value.
Rx_with_dma(cr3) == cr3_write_set("dmar")
Tx_with_dma(cr3) == cr3_write_set("dmat")

\* RxDma::release, TxDma::release: stop the channel, then store CR3.
RxDma_release(ch, cr3) ==
    LET c == stop(Program(ch))
    IN  [ch |-> c.ch, cr3 |-> cr3_write_clear("dmar"),
         log |-> Append(c.log, "cr3.write")]

TxDma_release(ch, cr3) ==
    LET c == stop(Program(ch))
    IN  [ch |-> c.ch, cr3 |-> cr3_write_clear("dmat"),
         log |-> Append(c.log, "cr3.write")]

\* A variant of ReadDma::read that starts the channel before its control
\* fields are written.
ReadDma_read_start_early(ch, len) ==
    LET c1 == set_peripheral_address(Program(ch), "USART_DR", FALSE)
        c2 == set_memory_address(c1, "buffer", TRUE)
        c3 == set_transfer_length(c2, len)
        c4 == compiler_fence(c3)
        c5 == start(c4)
    IN  cr_modify(c5, FALSE, FALSE)

\* ReadDma::read
ReadDma_read(ch, len) ==
    LET c1 == set_peripheral_address(Program(ch), "USART_DR", FALSE)
        c2 == set_memory_address(c1, "buffer", TRUE)
        c3 == set_transfer_length(c2, len)
        c4 == compiler_fence(c3)
        c5 == cr_modify(c4, FALSE, FALSE)
    IN  start(c5)

\* A variant of circ_read that leaves circular mode off, as read() does.
CircReadDma_circ_read_one_shot(ch, len) ==
    LET c1 == set_peripheral_address(Program(ch), "USART_DR", FALSE)
        c2 == set_memory_address(c1, "buffer", TRUE)
        c3 == set_transfer_length(c2, len)
        c4 == compiler_fence(c3)
        c5 == cr_modify(c4, FALSE, FALSE)
    IN  start(c5)

\* CircReadDma::circ_read
CircReadDma_circ_read(ch, len) ==
    LET c1 == set_peripheral_address(Program(ch), "USART_DR", FALSE)
        c2 == set_memory_address(c1, "buffer", TRUE)
        c3 == set_transfer_length(c2, len)
        c4 == compiler_fence(c3)
        c5 == cr_modify(c4, TRUE, FALSE)
    IN  start(c5)

\* WriteDma::write
WriteDma_write(ch, len) ==
    LET c1 == set_peripheral_address(Program(ch), "USART_DR", FALSE)
        c2 == set_memory_address(c1, "buffer", TRUE)
        c3 == set_transfer_length(c2, len)
        c4 == compiler_fence(c3)
        c5 == cr_modify(c4, FALSE, TRUE)
    IN  start(c5)

----------------------------------------------------------------------------
(* Driver calls: DMA promotion, transfers and release.                     *)

RxWithDma ==
    /\ rxOwner = "Rx"
    /\ {"Rx", "rxch"} \subseteq held
    /\ held' = Rx_with_dma_moves(held)
    /\ usart' = [usart EXCEPT !.cr3 = Rx_with_dma(usart.cr3)]
    /\ rxOwner' = "RxDma"
    /\ Called("rx.with_dma", <<>>, <<"cr3.write">>, Done)
    /\ UNCHANGED <<rxch, txch, txOwner, sent, line>>

TxWithDma ==
    /\ txOwner = "Tx"
    /\ {"Tx", "txch"} \subseteq held
    /\ held' = Tx_with_dma_moves(held)
    /\ usart' = [usart EXCEPT !.cr3 = Tx_with_dma(usart.cr3)]
    /\ txOwner' = "TxDma"
    /\ Called("tx.with_dma", <<>>, <<"cr3.write">>, Done)
    /\ UNCHANGED <<rxch, txch, rxOwner, sent, line>>

RxDmaRelease ==
    /\ rxOwner = "RxDma"
    /\ {"RxDma"} \subseteq held
    /\ held' = RxDma_release_moves(held)
    /\ LET r == RxDma_release(rxch, usart.cr3)
       IN  /\ rxch' = r.ch
           /\ usart' = [usart EXCEPT !.cr3 = r.cr3]
           /\ Called("rxdma.release", <<>>, r.log, Done)
    /\ rxOwner' = "Rx"
    /\ UNCHANGED <<txch, txOwner, sent, line>>

TxDmaRelease ==
    /\ txOwner = "TxDma"
    /\ {"TxDma"} \subseteq held
    /\ held' = TxDma_release_moves(held)
    /\ LET r == TxDma_release(txch, usart.cr3)
       IN  /\ txch' = r.ch
           /\ usart' = [usart EXCEPT !.cr3 = r.cr3]
           /\ Called("txdma.release", <<>>, r.log, Done)
    /\ txOwner' = "Tx"
    /\ UNCHANGED <<rxch, rxOwner, sent, line>>

DmaRead ==
    /\ rxOwner = "RxDma"
    /\ {"RxDma", "rxbuf"} \subseteq held
    /\ held' = ReadDma_read_moves(held)
    /\ \E len \in BufLens :
         LET c == ReadDma_read(rxch, len)
         IN  /\ rxch' = c.ch
             /\ Called("dma.read", <<len>>, c.log, Done)
    /\ rxOwner' = "Transfer"
    /\ UNCHANGED <<usart, txch, txOwner, sent, line>>

DmaCircRead ==
    /\ rxOwner = "RxDma"
    /\ {"RxDma", "rxbuf"} \subseteq held
    /\ held' = CircReadDma_circ_read_moves(held)
    /\ \E half \in BufLens :
         LET c == CircReadDma_circ_read(rxch, 2 * half)
         IN  /\ rxch' = c.ch
             /\ Called("dma.circ_read", <<2 * half>>, c.log, Done)
    /\ rxOwner' = "CircBuffer"
    /\ engine' = EngineStarted
    /\ UNCHANGED <<usart, txch, txOwner, sent, pend, want, wstr>>

DmaWrite ==
    /\ txOwner = "TxDma"
    /\ {"TxDma", "txbuf"} \subseteq held
    /\ \E shared \in BOOLEAN : held' = WriteDma_write_moves(held, shared)
    /\ \E len \in BufLens :
         LET c == WriteDma_write(txch, len)
         IN  /\ txch' = c.ch
             /\ Called("dma.write", <<len>>, c.log, Done)
    /\ txOwner' = "Transfer"
    /\ UNCHANGED <<usart, rxch, rxOwner, sent, line>>

\* TransferPayload::start and stop called on a DMA-capable handle itself: the
\* channel is switched on or off as it is, the handle stays with the caller.
RxDmaStart ==
    /\ rxOwner = "RxDma"
    /\ "RxDma" \in held
    /\ LET c == start(Program(rxch))
       IN  /\ rxch' = c.ch
           /\ Called("rxdma.start", <<>>, c.log, Done)
    /\ UNCHANGED <<usart, txch, rxOwner, txOwner, sent, held, line>>

RxDmaStop ==
    /\ rxOwner = "RxDma"
    /\ "RxDma" \in held
    /\ LET c == stop(Program(rxch))
       IN  /\ rxch' = c.ch
           /\ Called("rxdma.stop", <<>>, c.log, Done)
    /\ UNCHANGED <<usart, txch, rxOwner, txOwner, sent, held, line>>

TxDmaStart ==
    /\ txOwner = "TxDma"
    /\ "TxDma" \in held
    /\ LET c == start(Program(txch))
       IN  /\ txch' = c.ch
           /\ Called("txdma.start", <<>>, c.log, Done)
    /\ UNCHANGED <<usart, rxch, rxOwner, txOwner, sent, held, line>>

TxDmaStop ==
    /\ txOwner = "TxDma"
    /\ "TxDma" \in held
    /\ LET c == stop(Program(txch))
       IN  /\ txch' = c.ch
           /\ Called("txdma.stop", <<>>, c.log, Done)
    /\ UNCHANGED <<usart, rxch, rxOwner, txOwner, sent, held, line>>

\* Transfer::wait and CircBuffer::stop hand the DMA-capable handle back after
\* stopping the channel through TransferPayload::stop.
RxTransferEnd ==
    /\ rxOwner \in {"Transfer", "CircBuffer"}
    /\ held \cap {"RxTransfer", "CircBuffer"} # {}
    /\ held' = RxTransfer_end_moves(held)
    /\ LET c == stop(Program(rxch))
       IN  /\ rxch' = c.ch
           /\ Called("rx.transfer.end", <<>>, c.log, Done)
    /\ rxOwner' = "RxDma"
    /\ engine' = EngineIdle
    /\ UNCHANGED <<usart, txch, txOwner, sent, pend, want, wstr>>

TxTransferEnd ==
    /\ txOwner = "Transfer"
    /\ {"TxTransfer"} \subseteq held
    /\ held' = TxTransfer_end_moves(held)
    /\ LET c == stop(Program(txch))
       IN  /\ txch' = c.ch
           /\ Called("tx.transfer.end", <<>>, c.log, Done)
    /\ txOwner' = "TxDma"
    /\ UNCHANGED <<usart, rxch, rxOwner, sent, line>>

\* Byte-level polling against the live device.
NextPoll ==
    \/ HwReceive
    \/ HwFault
    \/ HwTxEmpty
    \/ HwTxComplete
    \/ Read
    \/ Write
    \/ Flush
    \/ Split

\* Ownership and DMA set-up of the two halves.
NextDma ==
    \/ Split
    \/ RxWithDma
    \/ TxWithDma
    \/ RxDmaRelease
    \/ TxDmaRelease
    \/ RxDmaStart
    \/ RxDmaStop
    \/ TxDmaStart
    \/ TxDmaStop
    \/ DmaRead
    \/ DmaCircRead
    \/ DmaWrite
    \/ RxTransferEnd
    \/ TxTransferEnd

SpecPoll == Init /\ [][NextPoll]_vars
SpecDma == Init /\ [][NextDma]_vars

\* The same, with channels that come either out of reset or from earlier use.
InitUsed ==
    /\ usart = UsartBuilt
    /\ rxch \in {ChannelReset, ChannelUsed}
    /\ txch \in {ChannelReset, ChannelUsed}
    /\ rxOwner = "Serial"
    /\ txOwner = "Serial"
    /\ trace = <<>>
    /\ last = NoCall
    /\ prev = NoOp
    /\ sent = "idle"
    /\ held = {"Serial", "rxch", "txch", "rxbuf", "txbuf"}
    /\ engine = EngineIdle
    /\ pend = <<>>
    /\ want = [b \in IeBits |-> FALSE]
    /\ wstr = StrIdle

SpecDmaUsed == InitUsed /\ [][NextDma]_vars

\* Before construction: the caller holds the peripheral and the pins.
InitUnbuilt ==
    /\ usart \in {UsartReset, UsartUsed}
    /\ rxch = ChannelReset
    /\ txch = ChannelReset
    /\ rxOwner = "Released"
    /\ txOwner = "Released"
    /\ trace = <<>>
    /\ last = NoCall
    /\ prev = NoOp
    /\ sent = "idle"
    /\ held = {"USART", "PINS", "rxch", "txch", "rxbuf", "txbuf"}
    /\ engine = EngineIdle
    /\ pend = <<>>
    /\ want = [b \in IeBits |-> FALSE]
    /\ wstr = StrIdle

\* Construction and release, any number of times.
NextBuild ==
    \/ Construct
    \/ SerialRelease

SpecBuild == InitUnbuilt /\ [][NextBuild]_vars

\* The interrupt enables through the whole handle and through the halves,
\* and the release of the whole handle.
NextListen ==
    \/ Split
    \/ SerialRelease
    \/ SerialListen
    \/ SerialUnlisten
    \/ RxListen
    \/ RxUnlisten
    \/ TxListen
    \/ TxUnlisten

\* After a construction with any parity and any stop bits.
InitConfigured ==
    /\ usart \in {[UsartBuilt EXCEPT !.cr1 = @ \cup ParityPlan(p), !.cr2 = StopCode(sb)] :
                    p \in Parities, sb \in StopBits}
    /\ rxch = ChannelReset
    /\ txch = ChannelReset
    /\ rxOwner = "Serial"
    /\ txOwner = "Serial"
    /\ trace = <<>>
    /\ last = NoCall
    /\ prev = NoOp
    /\ sent = "idle"
    /\ held = {"Serial", "rxch", "txch", "rxbuf", "txbuf"}
    /\ engine = EngineIdle
    /\ pend = <<>>
    /\ want = [b \in IeBits |-> FALSE]
    /\ wstr = StrIdle

SpecListen == InitConfigured /\ [][NextListen]_vars

\* The two halves used from the main program and from interrupt handlers.
NextIsr ==
    \/ Split
    \/ ModifyBegin
    \/ Interrupt
    \/ ModifyEnd

SpecIsr == InitConfigured /\ [][NextIsr]_vars

\* write_str on the transmit half against the transmitter.
NextStr ==
    \/ Split
    \/ HwTxEmpty
    \/ HwTxComplete
    \/ WriteStrCall
    \/ WriteStrPoll

SpecStr == Init /\ [][NextStr]_vars

\* The same where the transmitter keeps emptying the data register and the
\* loop of write_str keeps running.
LiveSpecStr == SpecStr /\ WF_vars(HwTxEmpty) /\ WF_vars(WriteStrPoll)

\* Everything together.
Next == NextPoll \/ NextDma \/ NextBuild \/ NextListen \/ NextIsr \/ NextStr

Spec == Init /\ [][Next]_vars

----------------------------------------------------------------------------
(* Properties.                                                             *)

Range(q) == {q[i] : i \in 1..Len(q)}
Count(q, x) == Cardinality({i \in 1..Len(q) : q[i] = x})

\* Reference order of the error kinds, highest priority first.
Priority == <<"pe", "fe", "ne", "ore">>
KindOf(f) == CASE f = "pe" -> "Parity" [] f = "fe" -> "Framing"
               [] f = "ne" -> "Noise" [] f = "ore" -> "Overrun"
Highest(sr) ==
    KindOf(Priority[CHOOSE i \in 1..Len(Priority) :
                      /\ Priority[i] \in sr
                      /\ \A j \in 1..(i - 1) : Priority[j] \notin sr])

\* C1: a read() that finds at least one error flag set returns Error(kind),
\* kind being the highest-priority flag set in the order Parity > Framing >
\* Noise > Overrun, whether or not data-ready is set.
C1_ReadReportsHighestPriorityError ==
    (last.op = "read" /\ last.sr \cap ErrFlags # {})
        => (last.kind = "Err" /\ last.err = Highest(last.sr))

\* C1 witness: overrun and framing latched together without data-ready;
\* Framing is reported.
C1_Witness ==
    /\ last.op = "read"
    /\ last.sr \cap (ErrFlags \cup {"rxne"}) = {"fe", "ore"}
    /\ last.err = "Framing"

\* C2 as stated: an erroring read() makes exactly two register reads, one
\* status read then one data read.
C2_TwoReadsOnError ==
    (last.op = "read" /\ last.kind = "Err") => trace = <<"sr.read", "dr.read">>

\* C2 amended: an erroring read() makes exactly three register reads: the
\* status read that detects the error, then the clear sequence, a second
\* status read followed by one data read.
C2_ThreeReadsOnError ==
    (last.op = "read" /\ last.kind = "Err")
        => trace = <<"sr.read", "sr.read", "dr.read">>

\* C2 witness: a read() has reported an overrun.
C2_Witness == last.op = "read" /\ last.kind = "Err" /\ last.err = "Overrun"

\* C3: a read() that immediately follows an erroring read(), with no
\* hardware event between, does not report that error again.
C3_ErrorReportedOnce ==
    (prev.op = "read" /\ prev.kind = "Err" /\ last.op = "read")
        => ~(last.kind = "Err" /\ last.err = prev.err)

\* C3 witness: a read() right after a read() that reported Parity.
C3_Witness ==
    /\ prev.op = "read" /\ prev.kind = "Err" /\ prev.err = "Parity"
    /\ last.op = "read"

\* C4: a read() that finds neither data-ready nor an error flag returns
\* WouldBlock, does not read the data register and leaves the register block
\* as it was.
C4_IdlePollHasNoEffect ==
    [][(last'.op = "read" /\ usart.sr \cap (ErrFlags \cup {"rxne"}) = {})
          => /\ last'.kind = "WouldBlock"
             /\ "dr.read" \notin Range(trace')
             /\ usart' = usart]_vars

\* C4 witness: two idle polls in a row, both WouldBlock.
C4_Witness ==
    /\ prev.op = "read" /\ prev.kind = "WouldBlock"
    /\ last.op = "read" /\ last.kind = "WouldBlock"
    /\ last.sr \cap (ErrFlags \cup {"rxne"}) = {}

\* C5: a read() that finds data-ready and no error flag returns Ready with
\* the byte of the data register after exactly one data read, which drops
\* data-ready; a read() right after it returns WouldBlock.
C5_ReadyConsumesByte ==
    /\ (last.op = "read" /\ last.sr \cap ErrFlags = {} /\ "rxne" \in last.sr)
         => /\ last.kind = "Ok"
            /\ last.data = <<usart.rdr>>
            /\ Count(trace, "dr.read") = 1
            /\ "rxne" \notin usart.sr
    /\ (prev.op = "read" /\ prev.kind = "Ok" /\ last.op = "read")
         => last.kind = "WouldBlock"

\* C5 witness: a byte was returned and the next read() found nothing.
C5_Witness ==
    /\ prev.op = "read" /\ prev.kind = "Ok" /\ prev.data = <<MaxByte>>
    /\ last.op = "read" /\ last.kind = "WouldBlock"

\* C6: write(byte) returns Ready and loads the data register exactly when it
\* finds transmit-empty set, otherwise WouldBlock without a data write; the
\* outcome is a function of transmit-empty alone and is never an error.
C6_WriteIffTxe ==
    last.op = "write"
        => /\ last.kind = (IF "txe" \in last.sr THEN "Ok" ELSE "WouldBlock")
           /\ last.kind = "Ok" => (Count(trace, "dr.write") = 1
                                     /\ usart.tdr = last.arg[1])
           /\ last.kind = "WouldBlock" => "dr.write" \notin Range(trace)

\* C6 witness: a write accepted with transmission-complete clear, right
\* after a flush() that returned WouldBlock.
C6_Witness ==
    /\ prev.op = "flush" /\ prev.kind = "WouldBlock"
    /\ last.op = "write" /\ last.kind = "Ok" /\ "tc" \notin last.sr

\* C7 as stated: after an accepted write, flush() returns Ready exactly once:
\* no flush() returns Ready after one already has.
C7_FlushReadyOnce ==
    [][(sent = "flushed" /\ last'.op = "flush") => last'.kind # "Ok"]_vars

\* C7 amended: an accepted write leaves transmission-complete clear, and
\* every flush() returns WouldBlock while it is clear and Ready while it is
\* set, on each call and not only the first.
C7_FlushFollowsTc ==
    /\ (last.op = "write" /\ last.kind = "Ok") => "tc" \notin usart.sr
    /\ last.op = "flush"
         => last.kind = (IF "tc" \in usart.sr THEN "Ok" ELSE "WouldBlock")

\* C7 witness: a second flush() in a row reports Ready after a write.
C7_Witness ==
    /\ sent = "flushed"
    /\ prev.op = "flush" /\ prev.kind = "Ok"
    /\ last.op = "flush" /\ last.kind = "Ok"

RxDmaOwners == {"RxDma", "Transfer", "CircBuffer"}
TxDmaOwners == {"TxDma", "Transfer"}

\* C8: under every interleaving of the two directions, the receive DMA
\* request bit is set exactly from Rx::with_dma until RxDma::release and the
\* transmit bit exactly from Tx::with_dma until TxDma::release.
C8_DmaEnableFollowsOwnHandle ==
    /\ ("dmar" \in usart.cr3) <=> (rxOwner \in RxDmaOwners)
    /\ ("dmat" \in usart.cr3) <=> (txOwner \in TxDmaOwners)

\* C9: release() stops the channel and then clears the DMA request bit, and
\* no release() clears a DMA request bit whose channel is still running.
C9_StopBeforeDisable ==
    /\ [](last.op \in {"rxdma.release", "txdma.release"}
            => trace = <<"stop", "cr3.write">>)
    /\ [][last'.op \in {"rxdma.release", "txdma.release"}
            => /\ ("dmar" \in usart.cr3 /\ "dmar" \notin usart'.cr3) => ~rxch'.en
               /\ ("dmat" \in usart.cr3 /\ "dmat" \notin usart'.cr3) => ~txch'.en]_vars

\* What does hold of release(): within one release() the channel of the
\* released direction is stopped before CR3 is written.
ReleaseStopsOwnChannelFirst ==
    /\ last.op = "rxdma.release" => (trace = <<"stop", "cr3.write">> /\ ~rxch.en)
    /\ last.op = "txdma.release" => (trace = <<"stop", "cr3.write">> /\ ~txch.en)

DmaStarts == {"dma.read", "dma.write", "dma.circ_read"}
Programming ==
    {"set_peripheral_address", "set_memory_address", "set_transfer_length",
     "fence", "cr.modify"}
Started == IF last.op = "dma.write" THEN txch ELSE rxch

\* C10: read(buffer), write(buffer) and circ_read(buffer) start the channel
\* once, as their last hardware action, after both addresses, the length and
\* the control fields have been written and the fence has been issued.
C10_StartIsLast ==
    last.op \in DmaStarts
        => /\ trace # <<>>
           /\ trace[Len(trace)] = "start"
           /\ Count(trace, "start") = 1
           /\ \A a \in Programming : Count(trace, a) = 1
           /\ Started.en
           /\ Started.par = "USART_DR"
           /\ Started.mar = "buffer"
           /\ Started.ndt = last.arg[1]

\* C10 witness: a circular read is running after an earlier transfer on the
\* same channel has ended, and a write is running on the other channel.
C10_Witness ==
    /\ last.op = "dma.circ_read"
    /\ prev.op = "rx.transfer.end"
    /\ rxch.en /\ rxch.circ
    /\ txOwner = "Transfer" /\ txch.en /\ txch.ndt = MaxLen

\* The channel programme of a transfer of len elements.
Programme(len, circ, dir) ==
    [par |-> "USART_DR", pinc |-> FALSE, mar |-> "buffer", minc |-> TRUE,
     ndt |-> len, mem2mem |-> FALSE, pl |-> "medium", msize |-> "bits8",
     psize |-> "bits8", circ |-> circ, dir |-> dir, en |-> TRUE]

\* C11: read(buffer) programs length = element count, peripheral-to-memory,
\* circular off; write(buffer) the same with memory-to-peripheral; circ_read
\* as read with circular on; all three the data register address without
\* increment, the buffer address with increment, 8-bit sizes, medium
\* priority and memory-to-memory off, whatever the channel held before.
C11_ChannelProgramme ==
    /\ last.op = "dma.read" => rxch = Programme(last.arg[1], FALSE, FALSE)
    /\ last.op = "dma.write" => txch = Programme(last.arg[1], FALSE, TRUE)
    /\ last.op = "dma.circ_read" => rxch = Programme(last.arg[1], TRUE, FALSE)

\* C11 witness: a one-shot read programmed on the channel that an earlier
\* circular read had used.
C11_Witness ==
    /\ last.op = "dma.read" /\ last.arg = <<MaxLen>>
    /\ prev.op = "rx.transfer.end"
    /\ ~rxch.circ /\ rxch.en
    /\ txch.dir /\ txch.en

\* C12 as stated: for each direction at most one of the plain handle, the
\* DMA-capable handle and an active transfer exists at a time; while a
\* transfer exists its channel, its buffer and its DMA-capable handle are out
\* of the caller's hands.
C12_OneHandlePerDirection ==
    /\ Cardinality(held \cap RxHandles) <= 1
    /\ Cardinality(held \cap TxHandles) <= 1
    /\ held \cap {"RxTransfer", "CircBuffer"} # {}
          => held \cap {"RxDma", "rxch", "rxbuf"} = {}
    /\ "TxTransfer" \in held => held \cap {"TxDma", "txch", "txbuf"} = {}
    /\ "rxch" \in held <=> held \cap {"Serial", "Rx"} # {}
    /\ "txch" \in held <=> held \cap {"Serial", "Tx"} # {}

\* C12 amended: the same, except that the buffer of a write may stay with the
\* caller (a shared, read-only buffer); the channel and the DMA-capable
\* handle never do, and a receive buffer never does, so at most one transfer
\* is in flight per direction.
C12_OneHandlePerDirectionSharedWrite ==
    /\ Cardinality(held \cap RxHandles) <= 1
    /\ Cardinality(held \cap TxHandles) <= 1
    /\ held \cap {"RxTransfer", "CircBuffer"} # {}
          => held \cap {"RxDma", "rxch", "rxbuf"} = {}
    /\ "TxTransfer" \in held => held \cap {"TxDma", "txch"} = {}
    /\ "rxch" \in held <=> held \cap {"Serial", "Rx"} # {}
    /\ "txch" \in held <=> held \cap {"Serial", "Tx"} # {}
    /\ "txbuf" \notin held => "TxTransfer" \in held

\* C12 witness: both directions have a transfer in flight, a circular read
\* and a write from a shared buffer that the caller can still read.
C12_Witness ==
    /\ held = {"CircBuffer", "TxTransfer", "txbuf"}
    /\ rxch.en /\ txch.en
    /\ last.op = "dma.write"

\* C14: construction with clock / baud >= 16 writes exactly that integer
\* quotient to the baud divisor register, once; with a quotient below 16 (or
\* no quotient at all, baud = 0) it fails fatally and writes no divisor.
C14_DivisorIsQuotientOrPanic ==
    last.op = "usart" =>
        LET clock == last.arg.clock
            baud == last.arg.baud
        IN  IF baud > 0 /\ clock >= 16 * baud
            THEN /\ last.kind = "Ok"
                 /\ Count(trace, "brr.write") = 1
                 /\ usart.brr * baud <= clock
                 /\ clock < (usart.brr + 1) * baud
            ELSE /\ last.kind = "Panic"
                 /\ "brr.write" \notin Range(trace)
                 /\ usart.brr = UsartReset.brr
                 /\ "Serial" \notin held

\* C14 witness: a division with a remainder, 39 / 2, gives the divisor 19.
C14_Witness ==
    /\ last.op = "usart" /\ last.kind = "Ok"
    /\ last.arg.clock = 39 /\ last.arg.baud = 2
    /\ usart.brr = 19

\* C15: the registers that construction leaves follow the configuration:
\* word length M is set exactly for even or odd parity, parity enable PCE
\* equals M, parity selection PS is set exactly for odd parity, and the stop
\* field is 00 for 1, 01 for 0.5, 10 for 2 and 11 for 1.5 stop bits.
C15_RegisterPlan ==
    (last.op = "usart" /\ last.kind = "Ok") =>
        /\ "m" \in usart.cr1 <=> last.arg.parity \in {"ParityEven", "ParityOdd"}
        /\ "pce" \in usart.cr1 <=> "m" \in usart.cr1
        /\ "ps" \in usart.cr1 <=> last.arg.parity = "ParityOdd"
        /\ <<last.arg.stopbits, usart.cr2>> \in
              {<<"STOP1", 0>>, <<"STOP0P5", 1>>, <<"STOP2", 2>>, <<"STOP1P5", 3>>}

\* C15 witness: even parity with 1.5 stop bits.
C15_Witness ==
    /\ last.op = "usart" /\ last.kind = "Ok"
    /\ last.arg.parity = "ParityEven" /\ last.arg.stopbits = "STOP1P5"
    /\ usart.cr1 = {"m", "pce", "ue", "re", "te"}
    /\ usart.cr2 = 3

RegisterWrites ==
    {"brr.write", "cr1.modify(m,ps,pce)", "cr2.modify", "cr1.modify(ue,re,te)",
     "cr1.modify(ie)", "cr3.write"}

\* C17: a successful construction enables the peripheral's clock once and
\* resets it once, in this order and before every register write; the write
\* of UE, RE and TE is its last step, after the divisor, the parity and word
\* length, and the stop bits have been written.
C17_ConstructionOrder ==
    (last.op = "usart" /\ last.kind = "Ok") =>
        /\ Count(trace, "rcc.enable") = 1
        /\ Count(trace, "rcc.reset") = 1
        /\ \A i, j \in 1..Len(trace) :
             /\ (trace[i] = "rcc.enable" /\ trace[j] = "rcc.reset") => i < j
             /\ (trace[i] = "rcc.reset" /\ trace[j] \in RegisterWrites) => i < j
        /\ trace[Len(trace)] = "cr1.modify(ue,re,te)"
        /\ Count(trace, "cr1.modify(ue,re,te)") = 1
        /\ {"brr.write", "cr1.modify(m,ps,pce)", "cr2.modify"} \subseteq Range(trace)
        /\ {"ue", "re", "te"} \subseteq usart.cr1

\* C17 witness: a second construction, on a released peripheral.
C17_Witness ==
    /\ last.op = "usart" /\ last.kind = "Ok"
    /\ prev.op = "release"
    /\ Len(trace) = 7

ListenOps ==
    {"listen", "unlisten", "rx.listen", "rx.unlisten", "tx.listen", "tx.unlisten"}

\* C16: each interrupt-enable bit holds the value last set for it, whichever
\* handle set it, and a listen or unlisten call is one modify of CR1 that
\* leaves UE, RE, TE, the parity fields and every other register alone.
C16_ListenTouchesOwnBit ==
    /\ [](\A b \in IeBits : (b \in usart.cr1) <=> want[b])
    /\ [][last'.op \in ListenOps =>
            /\ trace' = <<"cr1.modify(ie)">>
            /\ usart'.cr1 \ IeBits = usart.cr1 \ IeBits
            /\ \A b \in IeBits \ {IeBit(last'.arg[1])} :
                 (b \in usart'.cr1) <=> (b \in usart.cr1)
            /\ [usart' EXCEPT !.cr1 = {}] = [usart EXCEPT !.cr1 = {}]]_vars

\* C16 witness: after split, Tx::unlisten right after Rx::listen leaves the
\* data-ready and idle enables set and the parity fields as constructed.
C16_Witness ==
    /\ last.op = "tx.unlisten" /\ prev.op = "rx.listen"
    /\ usart.cr1 = {"ue", "re", "te", "m", "pce", "rxneie", "idleie"}
    /\ want = [b \in IeBits |-> b # "txeie"]

\* C18: release() hands back the peripheral and the pins and accesses no
\* register: every register, with UE, RE, TE, the interrupt enables and the
\* baud divisor among them, is the same after release() as before it.
C18_ReleaseLeavesHardwareAlone ==
    [][last'.op = "release" =>
          /\ trace' = <<>>
          /\ usart' = usart
          /\ {"USART", "PINS"} \subseteq held'
          /\ "Serial" \notin held'
          /\ {"ue", "re", "te"} \subseteq usart'.cr1]_vars

\* C18 witness: released with the data-ready and transmit-empty interrupts
\* still enabled and the USART still switched on.
C18_Witness ==
    /\ last.op = "release"
    /\ {"USART", "PINS"} \subseteq held
    /\ usart.cr1 = {"ue", "re", "te", "rxneie", "txeie"}
    /\ usart.brr = MinDivisor

\* C19: when a listen or unlisten call on one half is preempted between the
\* read and the write of its CR1 update by a call on the other half, then,
\* once both calls are complete, the data-ready and the transmit-empty
\* interrupt enables each hold the value last set for them.
C19_HalvesIndependentUnderPreemption ==
    pend = <<>> =>
        \A b \in {"rxneie", "txeie"} : (b \in usart.cr1) <=> want[b]

\* C20: a read() that finds error flags set reports one error and leaves no
\* error flag and no pending byte behind; the read() right after it, with no
\* hardware event between, returns WouldBlock: neither the other latched
\* faults nor the byte received with the fault are reported later.
C20_ErrorsAreNotQueued ==
    /\ [][(last'.op = "read" /\ usart.sr \cap ErrFlags # {})
            => /\ last'.kind = "Err"
               /\ last'.err \in {"Parity", "Framing", "Noise", "Overrun"}
               /\ last'.data = <<>>
               /\ usart'.sr \cap (ErrFlags \cup {"rxne"}) = {}]_vars
    /\ []((prev.op = "read" /\ prev.kind = "Err" /\ last.op = "read")
            => (last.kind = "WouldBlock" /\ trace = <<"sr.read">>))

\* C20 witness: all four faults and a byte were latched when read() was
\* called; it reported Parity and left no flag and no pending byte behind.
C20_Witness ==
    /\ last.op = "read" /\ last.kind = "Err" /\ last.err = "Parity"
    /\ ErrFlags \cup {"rxne"} \subseteq last.sr
    /\ usart.sr \cap (ErrFlags \cup {"rxne"}) = {}

\* C21: a construction that fails on the divisor has enabled, reset and
\* remapped the peripheral and has written no USART register: the divisor
\* register and UE, RE and TE are as the reset left them, and the caller gets
\* no Serial handle.
C21_FailedConstructionWritesNothing ==
    (last.op = "usart" /\ last.kind = "Panic") =>
        /\ trace = <<"rcc.enable", "rcc.reset", "remap">>
        /\ usart.brr = 0
        /\ usart.cr1 \cap {"ue", "re", "te"} = {}
        /\ usart.cr2 = 0
        /\ held \cap {"Serial", "Rx", "Tx"} = {}
        /\ rxOwner # "Serial" /\ txOwner # "Serial"

\* C21 witness: 31 / 2 = 15 is refused on a peripheral that an earlier
\* construction had configured and that was released since.
C21_Witness ==
    /\ last.op = "usart" /\ last.kind = "Panic" /\ last.err = "impossible baud rate"
    /\ last.arg.clock = 31 /\ last.arg.baud = 2
    /\ prev.op = "release"
    /\ usart = UsartReset

\* C22: write_str writes the bytes of s to the data register once each and in
\* order, trying a byte again while write reports WouldBlock; it returns only
\* when all are written, always with Ok, and, as long as the transmitter
\* empties the data register after each byte, it does return.
C22_WriteStrWritesAllAndReturns ==
    /\ [](wstr.state = "running" =>
            /\ wstr.pos \in 1..Len(wstr.s)
            /\ wstr.out = SubSeq(wstr.s, 1, wstr.pos - 1))
    /\ [](wstr.state = "returned" => (wstr.res = "Ok" /\ wstr.out = wstr.s))
    /\ (wstr.state = "running") ~> (wstr.state = "returned")

\* C22 witness: the longest string, with different first and last bytes, has
\* been written and write_str has returned on the acceptance of its last byte.
C22_Witness ==
    /\ wstr.state = "returned" /\ wstr.res = "Ok"
    /\ Len(wstr.s) = MaxStr
    /\ wstr.s[1] # wstr.s[MaxStr]
    /\ wstr.out = wstr.s
    /\ usart.tdr = wstr.s[MaxStr]
    /\ last.op = "write" /\ last.kind = "Ok" /\ last.arg = <<wstr.s[MaxStr]>>

====
